---- MODULE Spec2Model ----
(***************************************************************************)
(* Model of src/ocr.py: the two captcha recognizers LegacyRecognizer and   *)
(* NNRecognizer.  A recognizer is constructed once (Init) and then serves  *)
(* recognize calls one after the other; every statement of recognize is    *)
(* one action.  Python strings are sequences of code points, images are    *)
(* records holding a mode and a grid of pixel rows, arrays are sequences.  *)
(***************************************************************************)
EXTENDS Integers, Sequences, FiniteSets, TLC

VARIABLES
    rec,          \* the recognizer object: its class, _table and _clr or _sess
    pc,           \* position of the (single) caller thread
    img,          \* argument of the running recognize call
    img_rec,      \* local img_rec
    segments,     \* local segments (LegacyRecognizer)
    np_segments,  \* local np_segments (LegacyRecognizer)
    predicts,     \* local predicts (LegacyRecognizer)
    img_np,       \* local img_np (NNRecognizer)
    out_tensor,   \* local out_tensor (NNRecognizer)
    output,       \* the value returned by the call
    error,        \* the exception raised by the call, "" for none
    runs,         \* history: inputs handed to session.run in this call
    ncalls,       \* history: number of calls started
    probe         \* history: one earlier finished call, kept for comparison

vars == <<rec, pc, img, img_rec, segments, np_segments, predicts, img_np,
          out_tensor, output, error, runs, ncalls, probe>>

locals == <<img_rec, segments, np_segments, predicts, img_np, out_tensor,
            output, error, runs>>

-----------------------------------------------------------------------------
(* Bounds of the model *)

MaxWidth == 4      \* widest input image
MaxSlots == 2      \* output tensors (character slots) of an NN model
MaxCalls == 3      \* recognize calls in one behaviour
NumClasses == 28   \* length of the label axis of an NN output tensor

(* Program constants *)

TableZeros == 156  \* [0] * 156
TableOnes == 100   \* [1] * 100
AlphabetSize == 26 \* asc < 26
OrdA == 97         \* ord("a")

-----------------------------------------------------------------------------
(* Python and numpy helpers *)

\* [v] * n
Repeat(v, n) == [i \in 1..n |-> v]

RECURSIVE Concat(_)
\* "".join(list of strings)
Concat(ss) == IF ss = <<>> THEN <<>> ELSE Head(ss) \o Concat(Tail(ss))

RECURSIVE Digits(_)
\* decimal digits of a natural number, as code points
Digits(n) == IF n < 10 THEN <<48 + n>> ELSE Append(Digits(n \div 10), 48 + (n % 10))

\* str(label): a str is returned as it is, an integer is written in decimal
PyStr(label) ==
    IF label.t = "str" THEN label.v
    ELSE IF label.v < 0 THEN <<45>> \o Digits(-label.v) ELSE Digits(label.v)

RECURSIVE ArgmaxFrom(_, _, _)
\* scan of np.argmax: best is the 1-based position of the first maximum so far
ArgmaxFrom(row, k, best) ==
    IF k > Len(row) THEN best
    ELSE ArgmaxFrom(row, k + 1, IF row[k] > row[best] THEN k ELSE best)

\* int(np.argmax(tensor, 1)) for a tensor of shape (1, K): the 0-based index of
\* the first maximum of its only row
Argmax1(tensor) == ArgmaxFrom(tensor[1], 1, 1) - 1

\* mutant of Chr: chr(ord("A") + asc)
Chr_upper(asc) == <<65 + asc>>

\* chr(ord("a") + asc)
Chr(asc) == <<OrdA + asc>>

-----------------------------------------------------------------------------
(* Images *)

\* Image.open(BytesIO(img)) succeeds only on decodable bytes
Decodable(b) == b.magic = "IMG"

\* Image.open(BytesIO(img)) on decodable bytes
ImageOpen(b) == [mode |-> b.mode, px |-> b.px]

\* Image.convert("L")
ConvertL(im) ==
    [mode |-> "L",
     px |-> [r \in DOMAIN im.px |-> [c \in DOMAIN im.px[r] |->
                IF im.mode = "1" THEN (IF im.px[r][c] # 0 THEN 255 ELSE 0)
                ELSE im.px[r][c]]]]

\* Image.point(table, "1"): every pixel is looked up in the table
Point(im, table) ==
    [mode |-> "1",
     px |-> [r \in DOMAIN im.px |-> [c \in DOMAIN im.px[r] |-> table[im.px[r][c] + 1]]]]

\* np.array(image, dtype=np.float32): the pixel rows as a 2-D array
NpArray(im) == im.px

\* np.expand_dims(a, 0)
ExpandDims0(a) == <<a>>

\* list(image.getdata()): the pixels, row after row
GetData(im) == Concat(im.px)

-----------------------------------------------------------------------------
(* utils.py: h_split, v_split, normalize.  Ink is 0, paper is 1. *)

NormWidth == 2     \* width of a normalized segment

HasInk(im, c) == \E r \in DOMAIN im.px : im.px[r][c] = 0

Columns(im, a, b) ==
    [mode |-> im.mode,
     px |-> [r \in DOMAIN im.px |-> SubSeq(im.px[r], a, b)]]

ImWidth(im) == IF im.px = <<>> THEN 0 ELSE Len(im.px[1])

RECURSIVE HSplitFrom(_, _, _, _)
\* projection scan: c is the column read, start the first column of the open
\* run of ink columns (0: none open), acc the segments closed so far
HSplitFrom(im, c, start, acc) ==
    IF c > ImWidth(im)
    THEN (IF start = 0 THEN acc ELSE Append(acc, Columns(im, start, c - 1)))
    ELSE IF HasInk(im, c)
         THEN HSplitFrom(im, c + 1, IF start = 0 THEN c ELSE start, acc)
         ELSE HSplitFrom(im, c + 1, 0,
                         IF start = 0 THEN acc ELSE Append(acc, Columns(im, start, c - 1)))

\* h_split(image): the maximal runs of ink columns, left to right
h_split(im) == HSplitFrom(im, 1, 0, <<>>)

\* v_split(image): the rows that hold ink
v_split(im) ==
    [mode |-> im.mode,
     px |-> SelectSeq(im.px, LAMBDA row : \E c \in DOMAIN row : row[c] = 0)]

\* normalize(image): every row cut or padded with paper to NormWidth columns
normalize(im) ==
    [mode |-> im.mode,
     px |-> [r \in DOMAIN im.px |-> [c \in 1..NormWidth |->
                IF c <= Len(im.px[r]) THEN im.px[r][c] ELSE 1]]]

-----------------------------------------------------------------------------
(* onnxruntime: model files and inference sessions.  A model file is a     *)
(* fixed function from input arrays to outputs; the files below are the    *)
(* models a recognizer may be constructed with.                            *)

SvmFiles == {"svm_model.onnx", "svm_strict.onnx"}
NnFiles == {"nn_model.onnx", "nn_wide.onnx"}

\* rt.InferenceSession(model_file): the loaded model
InferenceSession(model_file) ==
    CASE model_file = "svm_model.onnx" ->
            [file |-> model_file, bias |-> 24, rejects |-> 0]
      [] model_file = "svm_strict.onnx" ->
            [file |-> model_file, bias |-> 24, rejects |-> 2]
      [] model_file = "nn_model.onnx" ->
            [file |-> model_file, width |-> 3, bias |-> 24]
      [] model_file = "nn_wide.onnx" ->
            [file |-> model_file, width |-> 4, bias |-> 0]

Count(seq, v) == Cardinality({i \in DOMAIN seq : seq[i] = v})

Min(a, b) == IF a < b THEN a ELSE b

\* whether session.run raises on this input
SvmRaises(sess, x) == Count(x, 0) = sess.rejects

\* session.run(None, {name: x}) of an SVM model: [labels], labels of shape (1,);
\* a label is one letter of the lowercase alphabet the classifier was trained on
SvmRun(sess, x) ==
    LET n == sess.bias + Count(x, 0)
    IN  << << [t |-> "str", v |-> <<97 + (n % 26)>>] >> >>

\* whether session.run raises on this input of shape (1, 1, H, W)
NnRaises(sess, x) == Len(x[1][1]) # 1 \/ Len(x[1][1][1]) # sess.width

\* the label a slot of the model scores highest
NnPeak(sess, x, k) == Min(sess.bias + Count(x[1][1][1], 1) + k - 1, NumClasses - 1)

\* session.run(None, {name: x}) of an NN model: one tensor of shape
\* (1, NumClasses) per slot; an even slot scores the next label as high
NnRun(sess, x) ==
    [k \in 1..MaxSlots |->
        << [c \in 1..NumClasses |->
              IF c - 1 = NnPeak(sess, x, k) THEN 2
              ELSE IF k % 2 = 0 /\ c - 1 = NnPeak(sess, x, k) + 1 THEN 2
              ELSE 1] >>]

-----------------------------------------------------------------------------
(* The recognizers *)

\* mutant of LegacyTable: the threshold one grey level too low
LegacyTable_low == Repeat(0, TableZeros - 1) \o Repeat(1, TableOnes + 1)

\* LegacyRecognizer.__init__: self._table
LegacyTable == Repeat(0, TableZeros) \o Repeat(1, TableOnes)

\* mutant of NNTable: the two runs in the other order
NNTable_inverted == Repeat(1, TableZeros) \o Repeat(0, TableOnes)

\* NNRecognizer.__init__: self._table
NNTable == Repeat(0, TableZeros) \o Repeat(1, TableOnes)

\* LegacyRecognizer.__init__(model_file)
LegacyRecognizer(model_file) ==
    [kind |-> "LegacyRecognizer", _clr |-> InferenceSession(model_file),
     _table |-> LegacyTable]

\* NNRecognizer.__init__(model_file)
NNRecognizer(model_file) ==
    [kind |-> "NNRecognizer", _sess |-> InferenceSession(model_file),
     _table |-> NNTable]

RECURSIVE _tensor_to_captcha_le(_)
\* mutant of _tensor_to_captcha: asc <= 26
_tensor_to_captcha_le(tensors) ==
    IF tensors = <<>> THEN <<>>
    ELSE LET asc == Argmax1(Head(tensors))
         IN  (IF asc <= AlphabetSize THEN Chr(asc) ELSE <<>>)
             \o _tensor_to_captcha_le(Tail(tensors))

RECURSIVE _tensor_to_captcha_mark(_)
\* mutant of _tensor_to_captcha: a slot outside the alphabet is written "?"
_tensor_to_captcha_mark(tensors) ==
    IF tensors = <<>> THEN <<>>
    ELSE LET asc == Argmax1(Head(tensors))
         IN  (IF asc < AlphabetSize THEN Chr(asc) ELSE <<63>>)
             \o _tensor_to_captcha_mark(Tail(tensors))

RECURSIVE _tensor_to_captcha(_)
\* NNRecognizer._tensor_to_captcha(tensors)
_tensor_to_captcha(tensors) ==
    IF tensors = <<>> THEN <<>>
    ELSE LET asc == Argmax1(Head(tensors))
         IN  (IF asc < AlphabetSize THEN Chr(asc) ELSE <<>>)
             \o _tensor_to_captcha(Tail(tensors))

\* one element of the comprehension of line 40
Segment(segment) == GetData(ConvertL(normalize(v_split(segment))))

\* mutant of LabelText: str(predict[0]), the array and not its element
LabelText_array(predict) == <<91>> \o PyStr(predict[1][1]) \o <<93>>

\* one element of the comprehension of line 44
LabelText(predict) == PyStr(predict[1][1])

-----------------------------------------------------------------------------
(* Inputs *)

GrayLevels == {155, 156}

NoImage == [mode |-> "", px |-> <<>>]
NoBytes == [magic |-> "", mode |-> "", px |-> <<>>]

ImageBytes(row) == [magic |-> "IMG", mode |-> "L", px |-> <<row>>]

\* bytes that are no image
Corrupt == [magic |-> "???", mode |-> "L", px |-> <<<<155>>>>]

Inputs ==
    {Corrupt} \cup {ImageBytes(row) : row \in UNION {[1..w -> GrayLevels] : w \in 1..MaxWidth}}

-----------------------------------------------------------------------------
(* State after construction *)

Recognizers ==
    {LegacyRecognizer(f) : f \in SvmFiles} \cup {NNRecognizer(f) : f \in NnFiles}

\* the locals of a call are dropped when it ends
Drop ==
    /\ img' = NoBytes
    /\ img_rec' = NoImage
    /\ segments' = <<>>
    /\ np_segments' = <<>>
    /\ predicts' = <<>>
    /\ img_np' = <<>>
    /\ out_tensor' = <<>>
    /\ output' = <<>>
    /\ error' = ""
    /\ runs' = <<>>

Init ==
    /\ rec \in Recognizers
    /\ pc = "idle"
    /\ img = NoBytes
    /\ img_rec = NoImage
    /\ segments = <<>>
    /\ np_segments = <<>>
    /\ predicts = <<>>
    /\ img_np = <<>>
    /\ out_tensor = <<>>
    /\ output = <<>>
    /\ error = ""
    /\ runs = <<>>
    /\ ncalls = 0
    /\ probe = {}

-----------------------------------------------------------------------------
(* recognize, statement by statement *)

\* a caller invokes recognize(img)
Call ==
    /\ pc = "idle"
    /\ ncalls < MaxCalls
    /\ \E b \in Inputs : img' = b
    /\ ncalls' = ncalls + 1
    /\ pc' = IF rec.kind = "LegacyRecognizer" THEN "l36" ELSE "n83"
    /\ UNCHANGED <<rec, locals, probe>>

\* mutant of L_open: undecodable bytes are replaced by a blank image
L_open_swallow ==
    /\ pc = "l36"
    /\ img_rec' = (IF Decodable(img) THEN ImageOpen(img)
                   ELSE [mode |-> "L", px |-> <<<<255>>>>])
    /\ pc' = "l37"
    /\ UNCHANGED <<rec, img, segments, np_segments, predicts, img_np, out_tensor,
                   output, error, runs, ncalls, probe>>

\* line 36: img_rec = Image.open(BytesIO(img))
L_open ==
    /\ pc = "l36"
    /\ IF Decodable(img)
       THEN img_rec' = ImageOpen(img) /\ pc' = "l37" /\ error' = error
       ELSE img_rec' = img_rec /\ pc' = "raised" /\ error' = "DecodeError"
    /\ UNCHANGED <<rec, img, segments, np_segments, predicts, img_np, out_tensor,
                   output, runs, ncalls, probe>>

\* line 37: img_rec = img_rec.convert("L")
L_convert ==
    /\ pc = "l37"
    /\ img_rec' = ConvertL(img_rec)
    /\ pc' = "l38"
    /\ UNCHANGED <<rec, img, segments, np_segments, predicts, img_np, out_tensor,
                   output, error, runs, ncalls, probe>>

\* mutant of L_point: the table is consumed in place (pop(0), append(1))
L_point_shift ==
    /\ pc = "l38"
    /\ img_rec' = Point(img_rec, rec._table)
    /\ rec' = [rec EXCEPT !._table = Tail(rec._table) \o <<1>>]
    /\ pc' = "l40"
    /\ UNCHANGED <<img, segments, np_segments, predicts, img_np, out_tensor,
                   output, error, runs, ncalls, probe>>

\* line 38: img_rec = img_rec.point(self._table, "1")
L_point ==
    /\ pc = "l38"
    /\ img_rec' = Point(img_rec, rec._table)
    /\ pc' = "l40"
    /\ UNCHANGED <<rec, img, segments, np_segments, predicts, img_np, out_tensor,
                   output, error, runs, ncalls, probe>>

\* line 40: segments = [normalize(v_split(s)).convert("L").getdata() for s in h_split(img_rec)]
L_segments ==
    /\ pc = "l40"
    /\ segments' = [i \in DOMAIN h_split(img_rec) |-> Segment(h_split(img_rec)[i])]
    /\ pc' = "l42"
    /\ UNCHANGED <<rec, img, img_rec, np_segments, predicts, img_np, out_tensor,
                   output, error, runs, ncalls, probe>>

\* line 42: np_segments = [np.array(segment, dtype=np.float32) for segment in segments]
L_array ==
    /\ pc = "l42"
    /\ np_segments' = [i \in DOMAIN segments |-> segments[i]]
    /\ pc' = "l43"
    /\ UNCHANGED <<rec, img, img_rec, segments, predicts, img_np, out_tensor,
                   output, error, runs, ncalls, probe>>

\* mutant of L_run: a failed run is tried a second time before it is raised
L_run_retry ==
    /\ pc = "l43"
    /\ Len(predicts) < Len(np_segments)
    /\ LET np_segment == np_segments[Len(predicts) + 1]
       IN  /\ runs' = Append(runs, np_segment)
           /\ IF SvmRaises(rec._clr, np_segment)
              THEN /\ predicts' = predicts
                   /\ IF Len(runs) = Len(predicts)
                      THEN pc' = pc /\ error' = error
                      ELSE pc' = "raised" /\ error' = "InferenceError"
              ELSE predicts' = Append(predicts, SvmRun(rec._clr, np_segment))
                   /\ pc' = pc /\ error' = error
    /\ UNCHANGED <<rec, img, img_rec, segments, np_segments, img_np, out_tensor,
                   output, ncalls, probe>>

\* line 43, one element: self._clr.run(None, {name: np_segment})
L_run ==
    /\ pc = "l43"
    /\ Len(predicts) < Len(np_segments)
    /\ LET np_segment == np_segments[Len(predicts) + 1]
       IN  /\ runs' = Append(runs, np_segment)
           /\ IF SvmRaises(rec._clr, np_segment)
              THEN predicts' = predicts /\ pc' = "raised" /\ error' = "InferenceError"
              ELSE predicts' = Append(predicts, SvmRun(rec._clr, np_segment))
                   /\ pc' = pc /\ error' = error
    /\ UNCHANGED <<rec, img, img_rec, segments, np_segments, img_np, out_tensor,
                   output, ncalls, probe>>

\* line 44: return "".join([str(predict[0][0]) for predict in predicts])
L_return ==
    /\ pc = "l43"
    /\ Len(predicts) = Len(np_segments)
    /\ output' = Concat([i \in DOMAIN predicts |-> LabelText(predicts[i])])
    /\ pc' = "returned"
    /\ UNCHANGED <<rec, img, img_rec, segments, np_segments, predicts, img_np,
                   out_tensor, error, runs, ncalls, probe>>

\* line 83: img_rec = Image.open(BytesIO(img))
N_open ==
    /\ pc = "n83"
    /\ IF Decodable(img)
       THEN img_rec' = ImageOpen(img) /\ pc' = "n84" /\ error' = error
       ELSE img_rec' = img_rec /\ pc' = "raised" /\ error' = "DecodeError"
    /\ UNCHANGED <<rec, img, segments, np_segments, predicts, img_np, out_tensor,
                   output, runs, ncalls, probe>>

\* line 84: img_rec = img_rec.convert("L")
N_convert ==
    /\ pc = "n84"
    /\ img_rec' = ConvertL(img_rec)
    /\ pc' = "n85"
    /\ UNCHANGED <<rec, img, segments, np_segments, predicts, img_np, out_tensor,
                   output, error, runs, ncalls, probe>>

\* mutant of N_point: the table is consumed in place (pop(0), append(1))
N_point_shift ==
    /\ pc = "n85"
    /\ img_rec' = Point(img_rec, rec._table)
    /\ rec' = [rec EXCEPT !._table = Tail(rec._table) \o <<1>>]
    /\ pc' = "n86"
    /\ UNCHANGED <<img, segments, np_segments, predicts, img_np, out_tensor,
                   output, error, runs, ncalls, probe>>

\* line 85: img_rec = img_rec.point(self._table, "1")
N_point ==
    /\ pc = "n85"
    /\ img_rec' = Point(img_rec, rec._table)
    /\ pc' = "n86"
    /\ UNCHANGED <<rec, img, segments, np_segments, predicts, img_np, out_tensor,
                   output, error, runs, ncalls, probe>>

\* lines 86-88: img_np = np.array(img_rec, dtype=np.float32), two expand_dims
N_array ==
    /\ pc = "n86"
    /\ img_np' = ExpandDims0(ExpandDims0(NpArray(img_rec)))
    /\ pc' = "n90"
    /\ UNCHANGED <<rec, img, img_rec, segments, np_segments, predicts, out_tensor,
                   output, error, runs, ncalls, probe>>

\* line 90: out_tensor = self._sess.run(None, {name: img_np})
N_run ==
    /\ pc = "n90"
    /\ runs' = Append(runs, img_np)
    /\ IF NnRaises(rec._sess, img_np)
       THEN out_tensor' = out_tensor /\ pc' = "raised" /\ error' = "InferenceError"
       ELSE out_tensor' = NnRun(rec._sess, img_np) /\ pc' = "n91" /\ error' = error
    /\ UNCHANGED <<rec, img, img_rec, segments, np_segments, predicts, img_np,
                   output, ncalls, probe>>

\* line 91: output = NNRecognizer._tensor_to_captcha(out_tensor)
N_decode ==
    /\ pc = "n91"
    /\ output' = _tensor_to_captcha(out_tensor)
    /\ pc' = "n92"
    /\ UNCHANGED <<rec, img, img_rec, segments, np_segments, predicts, img_np,
                   out_tensor, error, runs, ncalls, probe>>

\* line 92: return output
N_return ==
    /\ pc = "n92"
    /\ pc' = "returned"
    /\ UNCHANGED <<rec, img, img_rec, segments, np_segments, predicts, img_np,
                   out_tensor, output, error, runs, ncalls, probe>>

\* what the caller gets from the call
Outcome == [img |-> img, output |-> output, error |-> error]

\* the call is over and its locals are dropped
Finish ==
    /\ pc \in {"returned", "raised"}
    /\ pc' = "idle"
    /\ Drop
    /\ probe' = probe
    /\ UNCHANGED <<rec, ncalls>>

\* the same, and the observer keeps this call to compare later ones with it
FinishKept ==
    /\ pc \in {"returned", "raised"}
    /\ probe = {}
    /\ pc' = "idle"
    /\ Drop
    /\ probe' = {Outcome}
    /\ UNCHANGED <<rec, ncalls>>

Next ==
    \/ Call
    \/ L_open \/ L_convert \/ L_point \/ L_segments \/ L_array \/ L_run \/ L_return
    \/ N_open \/ N_convert \/ N_point \/ N_array \/ N_run \/ N_decode \/ N_return
    \/ Finish \/ FinishKept

Spec == Init /\ [][Next]_vars

-----------------------------------------------------------------------------
(* Binarization alone: a call on a one-colour image of any grey level, run *)
(* up to the point transform.                                              *)

PlainInputs ==
    {ImageBytes([c \in 1..w |-> g]) : g \in 0..255, w \in 1..MaxWidth}

InitBin ==
    /\ rec \in Recognizers
    /\ pc = (IF rec.kind = "LegacyRecognizer" THEN "l36" ELSE "n83")
    /\ img \in PlainInputs
    /\ img_rec = NoImage
    /\ segments = <<>>
    /\ np_segments = <<>>
    /\ predicts = <<>>
    /\ img_np = <<>>
    /\ out_tensor = <<>>
    /\ output = <<>>
    /\ error = ""
    /\ runs = <<>>
    /\ ncalls = 1
    /\ probe = {}

NextBin == L_open \/ L_convert \/ L_point \/ N_open \/ N_convert \/ N_point

SpecBin == InitBin /\ [][NextBin]_vars

-----------------------------------------------------------------------------
(* Decoding alone: the call has reached line 91 with some output tensors.  *)

\* label indices at the ends of the alphabet and of the label axis
EdgeIdx == {0, 1, AlphabetSize - 1, AlphabetSize, NumClasses - 1}

\* a tensor of shape (1, NumClasses) scoring labels p and q highest
Tensor2(p, q) == << [c \in 1..NumClasses |-> IF c - 1 = p \/ c - 1 = q THEN 2 ELSE 1] >>

DecodeTensors == {Tensor2(p, q) : p \in EdgeIdx, q \in EdgeIdx}

InitDecode ==
    /\ rec \in {NNRecognizer(f) : f \in NnFiles}
    /\ pc = "n91"
    /\ img = NoBytes
    /\ img_rec = NoImage
    /\ segments = <<>>
    /\ np_segments = <<>>
    /\ predicts = <<>>
    /\ img_np = <<>>
    /\ out_tensor \in UNION {[1..n -> DecodeTensors] : n \in 0..MaxSlots}
    /\ output = <<>>
    /\ error = ""
    /\ runs = <<>>
    /\ ncalls = 1
    /\ probe = {}

NextDecode == N_decode \/ N_return

SpecDecode == InitDecode /\ [][NextDecode]_vars

-----------------------------------------------------------------------------
(* Properties *)

\* the index of the maximum of a tensor's row: the first index whose score no
\* other index exceeds
MaxIndex(tensor) ==
    CHOOSE i \in 0..(Len(tensor[1]) - 1) :
        /\ \A j \in 0..(Len(tensor[1]) - 1) : tensor[1][j + 1] <= tensor[1][i + 1]
        /\ \A j \in 0..(i - 1) : tensor[1][j + 1] < tensor[1][i + 1]

InAlphabet(i) == 0 <= i /\ i < 26

\* the code points of "abcdefghijklmnopqrstuvwxyz"
Letters ==
    <<97, 98, 99, 100, 101, 102, 103, 104, 105, 106, 107, 108, 109, 110, 111, 112,
      113, 114, 115, 116, 117, 118, 119, 120, 121, 122>>

\* the tensors whose maximum lies in the alphabet, in their order
Lettered(tensors) == SelectSeq(tensors, LAMBDA t : InAlphabet(MaxIndex(t)))

AllLower(str) == \A k \in DOMAIN str : str[k] \in 97..122

NNCall == rec.kind = "NNRecognizer"
LegacyCall == rec.kind = "LegacyRecognizer"

\* C1: _tensor_to_captcha returns, in tensor order, the letter 'a' + i of each
\* tensor whose argmax i lies in [0, 26) and nothing for the other tensors; an
\* argmax of 25 gives 'z', an argmax of 26 gives no character.
C1_Decode ==
    pc = "n92" =>
        /\ Len(output) = Len(Lettered(out_tensor))
        /\ \A k \in DOMAIN output :
              output[k] = Letters[MaxIndex(Lettered(out_tensor)[k]) + 1]
        /\ (Len(out_tensor) = 1 /\ MaxIndex(out_tensor[1]) = 25 => output = <<122>>)
        /\ (Len(out_tensor) = 1 /\ MaxIndex(out_tensor[1]) >= 26 => output = <<>>)

\* C1 witness: two tensors, the first with its maximum at 25 and the second at
\* 26, decoded to "z"
C1_Witness ==
    /\ pc = "n92"
    /\ Len(out_tensor) = 2
    /\ MaxIndex(out_tensor[1]) = 25
    /\ MaxIndex(out_tensor[2]) = 26
    /\ output = <<122>>

\* C2: the string NNRecognizer.recognize returns is at most as long as the list
\* of output tensors, and shorter when some tensor's argmax is outside [0, 26).
C2_Length ==
    (NNCall /\ pc = "returned") =>
        /\ Len(output) <= Len(out_tensor)
        /\ ((\E k \in DOMAIN out_tensor : ~InAlphabet(MaxIndex(out_tensor[k])))
               => Len(output) < Len(out_tensor))

\* C2 witness: a returned call one of whose slots fell outside the alphabet
C2_Witness ==
    /\ NNCall
    /\ pc = "returned"
    /\ out_tensor = NnRun(rec._sess, img_np)
    /\ \E k \in DOMAIN out_tensor : ~InAlphabet(MaxIndex(out_tensor[k]))
    /\ \E k \in DOMAIN out_tensor : InAlphabet(MaxIndex(out_tensor[k]))
    /\ Len(output) = Len(out_tensor) - 1

\* the labels the model gives the segments of the binarized image, in order
SegmentLabels ==
    [i \in DOMAIN h_split(img_rec) |->
        SvmRun(rec._clr, Segment(h_split(img_rec)[i]))[1][1]]

RECURSIVE DecValue(_)
DecValue(str) ==
    IF str = <<>> THEN 0 ELSE 10 * DecValue(SubSeq(str, 1, Len(str) - 1)) + (str[Len(str)] - 48)

\* str is the string form of the label: the label itself when it is a string,
\* its decimal numeral when it is a natural number
IsStringForm(str, label) ==
    IF label.t = "str" THEN str = label.v
    ELSE /\ str # <<>>
         /\ \A k \in DOMAIN str : str[k] \in 48..57
         /\ (Len(str) > 1 => str[1] # 48)
         /\ DecValue(str) = label.v

RECURSIVE IsJoinOf(_, _)
\* str is the concatenation of the string forms of the labels, in order
IsJoinOf(str, labels) ==
    IF labels = <<>> THEN str = <<>>
    ELSE \E k \in 0..Len(str) :
            /\ IsStringForm(SubSeq(str, 1, k), Head(labels))
            /\ IsJoinOf(SubSeq(str, k + 1, Len(str)), Tail(labels))

Thresholded ==
    [r \in DOMAIN img.px |-> [c \in DOMAIN img.px[r] |->
        IF img.px[r][c] >= 156 THEN 1 ELSE 0]]

\* C5: the table of either recognizer has 256 entries, 0 for the intensities
\* 0..155 and 1 for 156..255, and is the same in both; an all-zero image
\* binarizes to 0 everywhere and an all-255 image to 1 everywhere.
C5_Table ==
    /\ Len(rec._table) = 256
    /\ \A g \in 0..155 : rec._table[g + 1] = 0
    /\ \A g \in 156..255 : rec._table[g + 1] = 1
    /\ LegacyRecognizer("svm_model.onnx")._table = NNRecognizer("nn_model.onnx")._table
    /\ (pc \in {"l40", "n86"} => img_rec.px = Thresholded)

\* C5 witness: an all-255 image of two pixels binarized to 1 by the
\* LegacyRecognizer
C5_Witness ==
    /\ LegacyCall
    /\ pc = "l40"
    /\ img.px = << <<255, 255>> >>
    /\ img_rec.px = << <<1, 1>> >>

\* C6, as claimed: applying the table to an image that is the result of applying
\* the table gives the same image.
C6_Idempotent ==
    pc \in {"l40", "n86"} => Point(img_rec, rec._table) = img_rec

\* C6, amended: applying the table to an image that is the result of applying
\* the table gives the all-zero image (both values 0 and 1 are below 156); it
\* gives the same image only when that image has no pixel 1.
C6_SecondPassZero ==
    pc \in {"l40", "n86"} =>
        /\ \A r \in DOMAIN img_rec.px : \A c \in DOMAIN img_rec.px[r] :
              /\ img_rec.px[r][c] \in {0, 1}
              /\ Point(img_rec, rec._table).px[r][c] = 0
        /\ (Point(img_rec, rec._table) = img_rec
              <=> \A r \in DOMAIN img_rec.px : \A c \in DOMAIN img_rec.px[r] :
                     img_rec.px[r][c] = 0)

\* C6 witness: a binarized image with a pixel 1, which a second pass turns to 0
C6_Witness ==
    /\ NNCall
    /\ pc = "n86"
    /\ img_rec.px = << <<1>> >>
    /\ Point(img_rec, rec._table).px = << <<0>> >>

\* C7: a call on bytes that are no image ends with a DecodeError, and no
\* session run has happened in it.
C7_DecodeFirst ==
    /\ (pc \notin {"idle", "l36", "n83"} /\ ~Decodable(img)) =>
          /\ pc = "raised"
          /\ error = "DecodeError"
          /\ runs = <<>>
          /\ output = <<>>
    /\ error = "DecodeError" => (~Decodable(img) /\ runs = <<>>)

\* C7 witness: a call on corrupt bytes has raised
C7_Witness ==
    /\ pc = "raised"
    /\ img = Corrupt
    /\ error = "DecodeError"
    /\ runs = <<>>

\* C8: a call that ends gives what an earlier call of the same recognizer on the
\* same bytes gave, whatever was called in between.
C8_Deterministic ==
    pc \in {"returned", "raised"} =>
        \A p \in probe : p.img = img => (p.output = output /\ p.error = error)

\* C8 witness: the third call returns a non-empty string on the bytes of a kept
\* earlier call
C8_Witness ==
    /\ pc = "returned"
    /\ ncalls = 3
    /\ output # <<>>
    /\ \E p \in probe : p.img = img /\ p.output = output

\* C9: no step of a recognize call changes the recognizer: its table and its
\* session stay what construction made them.
C9_Frame == [][rec' = rec]_vars

\* C9 witness: a third call has ended in an error after two others, the
\* recognizer still being one that construction makes
C9_Witness ==
    /\ ncalls = 3
    /\ pc = "raised"
    /\ error = "InferenceError"
    /\ rec \in Recognizers

\* the feature vectors of the segments of the binarized image, in order
SegmentInputs ==
    [i \in DOMAIN h_split(img_rec) |-> Segment(h_split(img_rec)[i])]

\* C10: the LegacyRecognizer runs its session once per segment, in segment
\* order, the NNRecognizer once; a run that fails ends the call, it is not
\* repeated and the other pipeline is not entered.
C10_RunOnce ==
    /\ (LegacyCall /\ pc = "l43") => runs = SubSeq(SegmentInputs, 1, Len(predicts))
    /\ (LegacyCall /\ pc = "returned") => runs = SegmentInputs
    /\ (LegacyCall /\ error = "InferenceError") =>
          /\ pc = "raised"
          /\ runs = SubSeq(SegmentInputs, 1, Len(predicts) + 1)
          /\ SvmRaises(rec._clr, runs[Len(runs)])
    /\ LegacyCall => (img_np = <<>> /\ out_tensor = <<>>)
    /\ (NNCall /\ pc \in {"n91", "n92", "returned"}) => runs = <<img_np>>
    /\ (NNCall /\ error = "InferenceError") =>
          /\ pc = "raised"
          /\ runs = <<img_np>>
          /\ NnRaises(rec._sess, img_np)
    /\ NNCall => (segments = <<>> /\ np_segments = <<>> /\ predicts = <<>>)
    /\ (pc \in {"l36", "l37", "l38", "l40", "l42", "n83", "n84", "n85", "n86", "n90"})
          => runs = <<>>

\* C10 witness: the run on the second of two segments failed after the run on
\* the first succeeded, and the call ended there
C10_Witness ==
    /\ LegacyCall
    /\ pc = "raised"
    /\ error = "InferenceError"
    /\ Len(SegmentInputs) = 2
    /\ Len(predicts) = 1
    /\ runs = SegmentInputs
    /\ runs[1] # runs[2]

====
